---- MODULE Spec2Model ----
(***************************************************************************)
(* Device-presence scanners of homeassistant.components.device_tracker:    *)
(* the DD-WRT router poller (ddwrt.py) and the nmap sweep                  *)
(* (nmap_tracker.py), with the callers of scan_devices() and               *)
(* get_device_name() as concurrent threads.                                *)
(*                                                                         *)
(* Text is a sequence of characters.  A run of characters the programs     *)
(* never look inside (a hardware address, a host name, a field name) is    *)
(* written as one character of the alphabet.                               *)
(*                                                                         *)
(* Spec        the router poller, every method, with its clock             *)
(* SpecNmap    the sweep, scan_devices, with its clock                     *)
(* SpecPoll    either scanner, callers that only poll scan_devices         *)
(* SpecWindow  the router poller, every method, within one throttle window *)
(* SpecEither  SpecWindow or SpecNmap                                      *)
(* SpecNmapNames    SpecNmap with the callers of get_device_name           *)
(* SpecEitherNames  SpecWindow or SpecNmapNames                            *)
(* SpecShapes       the polled router lists entries of every shape         *)
(* SpecExitsFair    the router poller, one answer per exit path, fair      *)
(* SpecFunctions    the parser and the sweep's record loop on their own    *)
(***************************************************************************)
EXTENDS Integers, Sequences, FiniteSets, TLC

(***************************************************************************)
(* Bounds of the model.                                                    *)
(***************************************************************************)
\* most pieces a page given to the parser is put together from
MaxPieces == 4
\* longest active_wireless list a status page carries
MaxClients == 2
\* most five-field groups a lease table carries
MaxLeases == 2

(***************************************************************************)
(* Program constants.                                                      *)
(***************************************************************************)
\* variant: the interval set a second short
ShorterInterval == 5 - 1

\* MIN_TIME_BETWEEN_SCANS = timedelta(seconds=5), in seconds
MIN_TIME_BETWEEN_SCANS == 5

Threads == {"t1", "t2"}

(***************************************************************************)
(* Python str methods used by the scanners.                                *)
(***************************************************************************)
Whitespace == {" "}

RECURSIVE LStrip(_, _)
LStrip(s, cs) ==
    IF s # <<>> /\ Head(s) \in cs THEN LStrip(Tail(s), cs) ELSE s

RECURSIVE RStrip(_, _)
RStrip(s, cs) ==
    IF s # <<>> /\ s[Len(s)] \in cs
    THEN RStrip(SubSeq(s, 1, Len(s) - 1), cs)
    ELSE s

\* str.strip(chars): drops every leading and trailing character of cs
Strip(s, cs) == RStrip(LStrip(s, cs), cs)

StartsWith(s, p) == Len(s) >= Len(p) /\ SubSeq(s, 1, Len(p)) = p

RECURSIVE SplitAcc(_, _, _)
SplitAcc(s, sep, cur) ==
    IF s = <<>> THEN <<cur>>
    ELSE IF StartsWith(s, sep)
         THEN <<cur>> \o SplitAcc(SubSeq(s, Len(sep) + 1, Len(s)), sep, <<>>)
         ELSE SplitAcc(Tail(s), sep, Append(cur, Head(s)))

\* str.split(sep): the pieces between the non-overlapping occurrences of sep
Split(s, sep) == SplitAcc(s, sep, <<>>)

(***************************************************************************)
(* _DDWRT_DATA_REGEX (open-brace, word characters, two colons, anything   *)
(* but a close-brace, close-brace) and _parse_ddwrt_response.              *)
(***************************************************************************)
\* characters that are not \w
NonWord == {"{", "}", ":", "'", "\"", ",", " ", "A", "B", "a", "ip"}

IsWord(c) == c \notin NonWord

RECURSIVE WordRun(_, _)
\* length of the run of \w characters of s that starts at position i
WordRun(s, i) ==
    IF i <= Len(s) /\ IsWord(s[i]) THEN 1 + WordRun(s, i + 1) ELSE 0

RECURSIVE FindClose(_, _)
\* position of the first close-brace of s at or after i, 0 when there is none
FindClose(s, i) ==
    IF i > Len(s) THEN 0
    ELSE IF s[i] = "}" THEN i ELSE FindClose(s, i + 1)

RECURSIVE FindAll(_, _)
\* _DDWRT_DATA_REGEX.findall(s), scanning from position i: <<key, value>> pairs
FindAll(s, i) ==
    IF i > Len(s) THEN <<>>
    ELSE LET k  == WordRun(s, i + 1)
             v0 == i + k + 3
             j  == FindClose(s, v0)
             ok == /\ s[i] = "{"
                   /\ k >= 1
                   /\ i + k + 2 <= Len(s)
                   /\ s[i + k + 1] = ":"
                   /\ s[i + k + 2] = ":"
                   /\ j > 0
         IN  IF ok
             THEN << <<SubSeq(s, i + 1, i + k), SubSeq(s, v0, j - 1)>> >>
                    \o FindAll(s, j + 1)
             ELSE FindAll(s, i + 1)

EmptyDict == [k \in {} |-> <<>>]

\* variant: the first pair of a key wins
DictOfFirstWins(pairs) ==
    [k \in {pairs[i][1] : i \in DOMAIN pairs} |->
        LET first == CHOOSE i \in DOMAIN pairs :
                         /\ pairs[i][1] = k
                         /\ \A j \in DOMAIN pairs : pairs[j][1] = k => i <= j
        IN  pairs[first][2]]

\* the dict comprehension {key: val for key, val in pairs}: the last pair wins
DictOf(pairs) ==
    [k \in {pairs[i][1] : i \in DOMAIN pairs} |->
        LET last == CHOOSE i \in DOMAIN pairs :
                        /\ pairs[i][1] = k
                        /\ \A j \in DOMAIN pairs : pairs[j][1] = k => j <= i
        IN  pairs[last][2]]

parse_ddwrt_response(data_str) == DictOf(FindAll(data_str, 1))

\* dict[k] = v on a dict held as a function
Put(d, k, v) == [x \in DOMAIN d \cup {k} |-> IF x = k THEN v ELSE d[x]]

\* `not d.get(k, None)`: the key is missing or its value is the empty string
Falsy(d, k) == k \notin DOMAIN d \/ d[k] = <<>>


(***************************************************************************)
(* What the router can answer (requests.get) and what is sent to it.       *)
(***************************************************************************)
ACTIVE_WIRELESS == <<"active_wireless">>
DHCP_LEASES == <<"dhcp_leases">>

\* entries of an active_wireless list: two hardware addresses and one entry
\* that is no hardware address
ClientItems == {<<"A">>, <<"B">>, <<"j">>}
\* one-character spellings of text _MAC_REGEX matches: "a" is the address
\* "A" written with lowercase hex digits
MacChars == {"A", "B", "a"}

\* entries that put the pattern to the test: an address in either case, an
\* address followed or preceded by something else, something else
ShapeItems == {<<"A">>, <<"a">>, <<"A", "j">>, <<"j", "A">>, <<"j">>}

SeqsUpTo(S, n) == UNION {[1..k -> S] : k \in 0..n}

RECURSIVE Quoted(_, _)
\* the items, each between two q, with commas in between
Quoted(items, q) ==
    IF items = <<>> THEN <<>>
    ELSE <<q>> \o Head(items) \o <<q>>
         \o (IF Len(items) > 1 THEN <<",">> ELSE <<>>)
         \o Quoted(Tail(items), q)

RECURSIVE Flatten(_)
Flatten(ss) == IF ss = <<>> THEN <<>> ELSE Head(ss) \o Flatten(Tail(ss))

Field(key, value) == <<"{">> \o key \o <<":", ":">> \o value \o <<"}">>

\* bodies of Status_Wireless.live.asp
\* the router lists a client once
ClientLists ==
    {l \in SeqsUpTo(ClientItems, MaxClients) :
        \A i, j \in DOMAIN l : l[i] = l[j] => i = j}

StatusBodies ==
    {Field(ACTIVE_WIRELESS, Quoted(l, "'")) : l \in ClientLists}
        \cup {Field(<<"lan_mac">>, <<"A">>),
              <<" ">> ,
              <<"{">> \o ACTIVE_WIRELESS \o <<":", ":", "'", "A", "'">>}

\* bodies of Status_Wireless.live.asp listing entries of every shape
ShapeBodies ==
    {Field(ACTIVE_WIRELESS, Quoted(l, "'")) :
        l \in SeqsUpTo(ShapeItems, MaxClients)}

\* one lease: name, address, hardware address, lease time, host number
LeaseGroup(n, m) == << <<n>>, <<"ip">>, <<m>>, <<"t">>, <<"h">> >>

LeaseGroups ==
    {LeaseGroup("n1", "A"), LeaseGroup("n2", "A"), LeaseGroup("n2", "B")}

\* bodies of Status_Lan.live.asp: whole groups, then maybe a cut-off one
LeaseBodies ==
    {Field(DHCP_LEASES, Quoted(Flatten(gs), "\"")) :
        gs \in SeqsUpTo(LeaseGroups, MaxLeases)}
    \cup {Field(DHCP_LEASES,
                Quoted(Flatten(gs) \o << <<"n2">>, <<"ip">>, <<"B">> >>, "\"")) :
            gs \in SeqsUpTo(LeaseGroups, 1)}
    \cup {Field(<<"lan_mac">>, <<"A">>), <<"{">> \o DHCP_LEASES}

\* outcomes of requests.get(url, auth, timeout=4)
Responses(bodies) ==
    {[exc |-> e, status_code |-> 0, text |-> <<>>] :
        e \in {"Timeout", "ConnectionError"}}
    \cup {[exc |-> "none", status_code |-> c, text |-> <<>>] : c \in {401, 500}}
    \cup {[exc |-> "none", status_code |-> 200, text |-> b] : b \in bodies}

\* device ids callers ask a name for
Devices == {<<"A">>, <<"B">>}

(***************************************************************************)
(* DdWrtDeviceScanner.get_ddwrt_data: raised when the exception leaves     *)
(* the method, none when it returns None, data the parsed page otherwise.  *)
(***************************************************************************)
get_ddwrt_data(response) ==
    IF response.exc = "Timeout"
    THEN [raised |-> FALSE, none |-> TRUE, data |-> EmptyDict]
    ELSE IF response.exc # "none"
    THEN [raised |-> TRUE, none |-> TRUE, data |-> EmptyDict]
    ELSE IF response.status_code = 200
    THEN [raised |-> FALSE, none |-> FALSE,
          data |-> parse_ddwrt_response(response.text)]
    ELSE [raised |-> FALSE, none |-> TRUE, data |-> EmptyDict]

\* `not data`
NotData(r) == r.none \/ r.data = EmptyDict

\* _MAC_REGEX.match(item): a hardware address at the start of item
MacMatch(item) == item # <<>> /\ item[1] \in MacChars


(***************************************************************************)
(* State.                                                                  *)
(***************************************************************************)
VARIABLES
    platform,       \* "ddwrt" or "nmap": which scanner this is
    scanner,        \* what get_scanner gave: "pending", "object", "None", "raised"
    success_init,   \* self.success_init: "unset" until the constructor sets it
    lock,           \* self.lock: "free" or the thread that holds it
    last_results,   \* self.last_results
    mac2name,       \* self.mac2name
    throttle_lock,  \* the Throttle guard of _update_info: "free" or its holder
    elapsed,        \* seconds since the last refresh began, -1 before the first;
                    \* the Throttle compares it with MIN_TIME_BETWEEN_SCANS and
                    \* nothing else, so it is not counted beyond that
    pc,             \* where each thread is
    frame,          \* each thread's local variables
    pre_results,    \* last_results as it was when the running refresh began
    prev_scan,      \* "live" while the list the latest scan_devices() to return
                    \* handed out is the one self.last_results names, "old"
                    \* once it is not, "none" before the first return
    prev_name,      \* the latest get_device_name() to return, if it gave a
                    \* name: the device, the name and whether the lease table
                    \* was fetched; kept until the next call starts a fetch
    now,            \* dt_util.now(), in seconds (the sweep reads the clock)
    home_interval,  \* self.home_interval of the sweep, in seconds
    arg,            \* the argument of a function called on its own
    out             \* what it returned, Pending until it has

vars == <<platform, scanner, success_init, lock, last_results, mac2name,
          throttle_lock, elapsed, pc, frame, pre_results, prev_scan, prev_name,
          now, home_interval, arg, out>>

\* what only a function called on its own uses
fnVars == <<arg, out>>
Pending == [done |-> FALSE, value |-> <<>>]
\* what only the sweep uses, and what only the router poller uses
nmapVars == <<now, home_interval>>
ddwrtVars == <<lock, mac2name, pre_results, prev_scan, prev_name>>

\* device, elements, idx, boundary, exclude: the locals of the method the
\* thread is in (elements is also the sweep's local last_results, exclude
\* the addresses after --exclude); constructing: the call comes from __init__;
\* result: what _update_info returned to scan_devices;
\* throttled, cached: the call came inside the throttle window, and what
\* self.last_results held at that time
NoFrame == [device |-> <<>>, elements |-> <<>>, idx |-> 0, result |-> "None",
            throttled |-> FALSE, cached |-> <<>>,
            constructing |-> FALSE, boundary |-> 0, exclude |-> <<>>]

\* scan_devices returns the list object self.last_results names, not a copy:
\* the caller sees that object's content for as long as the scanner keeps it.
\* self.last_results is bound to a new object: the old one is no longer live
Rebind(p) == IF p = "live" THEN "old" ELSE p

None == <<"None">>
NoName == [device |-> <<>>, name |-> None, fetched |-> FALSE]

Constructed == success_init # "unset"

Min(a, b) == IF a < b THEN a ELSE b

(***************************************************************************)
(* The clock.                                                              *)
(***************************************************************************)
Tick ==
    /\ platform = "ddwrt"
    /\ elapsed \in 0..(MIN_TIME_BETWEEN_SCANS - 1)
    /\ elapsed' = elapsed + 1
    /\ UNCHANGED <<fnVars, platform, scanner, success_init, lock, last_results,
                   mac2name, throttle_lock, pc, frame, pre_results, prev_scan,
                   prev_name,
                   nmapVars>>

(***************************************************************************)
(* ddwrt.get_scanner and DdWrtDeviceScanner.__init__.                      *)
(***************************************************************************)
StatusResponses == Responses(StatusBodies)
LeaseResponses == Responses(LeaseBodies)

\* get_ddwrt_data of every answer, worked out once
ShapeResponses == Responses(ShapeBodies)

DdwrtData ==
    [r \in StatusResponses \cup LeaseResponses \cup ShapeResponses |->
        get_ddwrt_data(r)]

DdGetScanner(config_ok, response) ==
    /\ platform = "ddwrt"
    /\ scanner = "pending"
    /\ IF ~config_ok
       THEN scanner' = "None" /\ UNCHANGED success_init
       ELSE LET data == DdwrtData[response] IN
            IF data.raised
            THEN scanner' = "raised" /\ UNCHANGED success_init
            ELSE /\ success_init' = IF data.none THEN "False" ELSE "True"
                 /\ scanner' = IF data.none THEN "None" ELSE "object"
    /\ UNCHANGED <<fnVars, platform, lock, last_results, mac2name, throttle_lock,
                   elapsed, pc, frame, pre_results, prev_scan, prev_name,
                   nmapVars>>

(***************************************************************************)
(* homeassistant.util.Throttle, as the specification describes it: one     *)
(* guard per scanner is held from the staleness check to the end of the    *)
(* refresh; a refresh is attempted only when MIN_TIME_BETWEEN_SCANS have   *)
(* passed since the last one began.  A caller that finds the guard taken   *)
(* either waits for it or returns without refreshing.                      *)
(***************************************************************************)
Stale == elapsed = -1 \/ elapsed >= MIN_TIME_BETWEEN_SCANS

GuardFree == throttle_lock = "free"

\* scan_devices calls self._update_info(): the guard is free
ThrottleEnter(t) ==
    /\ pc[t] = "idle"
    /\ Constructed
    /\ GuardFree
    /\ IF Stale
       THEN /\ throttle_lock' = t
            /\ elapsed' = 0
            /\ pc' = [pc EXCEPT ![t] = "update_info"]
            /\ UNCHANGED frame
       ELSE /\ pc' = [pc EXCEPT ![t] = "scan_return"]
            /\ frame' = [frame EXCEPT ![t] =
                            [NoFrame EXCEPT !.throttled = TRUE,
                                            !.cached = last_results]]
            /\ UNCHANGED <<throttle_lock, elapsed>>
    /\ UNCHANGED <<fnVars, platform, scanner, success_init, lock, last_results,
                   mac2name, pre_results, prev_scan, prev_name,
                   nmapVars>>

\* scan_devices calls self._update_info() while another thread refreshes
ThrottleBusy(t) ==
    /\ pc[t] = "idle"
    /\ Constructed
    /\ ~GuardFree
    /\ pc' = [pc EXCEPT ![t] = "scan_return"]
    /\ frame' = [frame EXCEPT ![t] = NoFrame]
    /\ UNCHANGED <<fnVars, platform, scanner, success_init, lock, last_results,
                   mac2name, throttle_lock, elapsed, pre_results, prev_scan,
                   prev_name,
                   nmapVars>>

\* _update_info returns `result`; the wrapper lets go of the guard
UpdateReturns(t, result) ==
    /\ pc' = [pc EXCEPT ![t] = "scan_return"]
    /\ frame' = [frame EXCEPT ![t] = [NoFrame EXCEPT !.result = result]]
    /\ throttle_lock' = "free"

\* an exception leaves _update_info, the wrapper and scan_devices
UpdateRaises(t) ==
    /\ pc' = [pc EXCEPT ![t] = "raised"]
    /\ frame' = [frame EXCEPT ![t] = NoFrame]
    /\ throttle_lock' = "free"


(***************************************************************************)
(* DdWrtDeviceScanner._update_info.                                        *)
(***************************************************************************)
\* `with self.lock:` of _update_info waits for the lock
UpdateLockFree == lock = "free"

\* variant: line 136 left out
InitUnchecked == TRUE

\* line 136: `if not self.success_init: return False`
InitOk == success_init = "True"

\* line 136: a scanner that failed its first probe does nothing
DdUpdateNotInit(t) ==
    /\ platform = "ddwrt"
    /\ pc[t] = "update_info"
    /\ ~InitOk
    /\ UpdateReturns(t, "False")
    /\ UNCHANGED <<fnVars, platform, scanner, success_init, lock, last_results,
                   mac2name, elapsed, pre_results, prev_scan, prev_name,
                   nmapVars>>

\* line 139: the lock is taken, the status page is asked for
DdUpdateLock(t) ==
    /\ platform = "ddwrt"
    /\ pc[t] = "update_info"
    /\ InitOk
    /\ UpdateLockFree
    /\ lock' = t
    /\ pc' = [pc EXCEPT ![t] = "update_fetch"]
    /\ UNCHANGED <<fnVars, platform, scanner, success_init, last_results, mac2name,
                   throttle_lock, elapsed, frame, pre_results, prev_scan,
                   prev_name,
                   nmapVars>>

\* the list the refresh starts to fill at line 148
ClearedResults == <<>>

\* lines 160-161: the entries of active_wireless
ActiveElements(active_clients) ==
    Split(Strip(Strip(active_clients, Whitespace), {"'"}), <<"'", ",", "'">>)

\* lines 143-161: the page arrives; up to the split of active_wireless
DdUpdateFetch(t, response) ==
    /\ platform = "ddwrt"
    /\ pc[t] = "update_fetch"
    /\ LET data == DdwrtData[response] IN
       IF data.raised
       THEN /\ lock' = "free"
            /\ UpdateRaises(t)
            /\ UNCHANGED <<last_results, pre_results, prev_scan>>
       ELSE IF NotData(data)
       THEN /\ lock' = "free"
            /\ UpdateReturns(t, "False")
            /\ UNCHANGED <<last_results, pre_results, prev_scan>>
       ELSE /\ last_results' = ClearedResults
            /\ prev_scan' = Rebind(prev_scan)
            /\ IF Falsy(data.data, ACTIVE_WIRELESS)
               THEN /\ lock' = "free"
                    /\ UpdateReturns(t, "False")
                    /\ pre_results' = last_results'
               ELSE /\ pc' = [pc EXCEPT ![t] = "update_extend"]
                    /\ frame' = [frame EXCEPT ![t] =
                         [NoFrame EXCEPT
                            !.elements =
                                ActiveElements(data.data[ACTIVE_WIRELESS]),
                            !.idx = 1]]
                    /\ pre_results' = last_results
                    /\ UNCHANGED <<lock, throttle_lock>>
    /\ UNCHANGED <<fnVars, platform, scanner, success_init, mac2name, elapsed,
                   prev_name,
                   nmapVars>>

\* lines 163-166: extend() takes the matching items one by one, then True
DdUpdateExtend(t) ==
    /\ platform = "ddwrt"
    /\ pc[t] = "update_extend"
    /\ LET f == frame[t] IN
       IF f.idx <= Len(f.elements)
       THEN /\ last_results' =
                 IF MacMatch(f.elements[f.idx])
                 THEN Append(last_results, f.elements[f.idx])
                 ELSE last_results
            /\ frame' = [frame EXCEPT ![t].idx = f.idx + 1]
            /\ UNCHANGED <<lock, throttle_lock, pc, pre_results>>
       ELSE /\ lock' = "free"
            /\ UpdateReturns(t, "True")
            /\ pre_results' = last_results
            /\ UNCHANGED last_results
    /\ UNCHANGED <<fnVars, platform, scanner, success_init, mac2name, elapsed,
                   prev_scan, prev_name,
                   nmapVars>>

\* variant: scan_devices also forgets the names
DdScanReturnDropsNames(t) ==
    /\ platform = "ddwrt"
    /\ pc[t] = "scan_return"
    /\ pc' = [pc EXCEPT ![t] = "idle"]
    /\ frame' = [frame EXCEPT ![t] = NoFrame]
    /\ prev_scan' = "live"
    /\ mac2name' = EmptyDict
    /\ UNCHANGED <<fnVars, platform, scanner, success_init, lock, last_results,
                   throttle_lock, elapsed, pre_results, prev_name,
                   nmapVars>>

\* line 95: return self.last_results
DdScanReturn(t) ==
    /\ platform = "ddwrt"
    /\ pc[t] = "scan_return"
    /\ pc' = [pc EXCEPT ![t] = "idle"]
    /\ frame' = [frame EXCEPT ![t] = NoFrame]
    /\ prev_scan' = "live"
    /\ UNCHANGED <<fnVars, platform, scanner, success_init, lock, last_results,
                   mac2name, throttle_lock, elapsed, pre_results, prev_name,
                   nmapVars>>

(***************************************************************************)
(* DdWrtDeviceScanner.get_device_name.                                     *)
(***************************************************************************)
\* variant: get_device_name without `with self.lock:`
NameLockIgnored == TRUE

\* `with self.lock:` of get_device_name waits for the lock
NameLockFree == lock = "free"

\* self.mac2name.get(device)
NameOf(index, device) == IF device \in DOMAIN index THEN index[device] ELSE None

\* variant: line 102 left out, every call asks for the lease table
AlwaysNeedsLeases(device) == TRUE

\* line 102: the lease table is asked for when the device is not a key
NeedsLeases(device) == device \notin DOMAIN mac2name

\* lines 100-102, 128: the device is a key of mac2name
DdNameHit(t, device) ==
    /\ platform = "ddwrt"
    /\ pc[t] = "idle"
    /\ Constructed
    /\ NameLockFree
    /\ ~NeedsLeases(device)
    /\ prev_name' = [device |-> device, name |-> NameOf(mac2name, device),
                     fetched |-> FALSE]
    /\ UNCHANGED <<fnVars, platform, scanner, success_init, lock, last_results,
                   mac2name, throttle_lock, elapsed, pc, frame, pre_results,
                   prev_scan,
                   nmapVars>>

\* lines 100-104: it is not; the lock is kept while the lease page is fetched
DdNameMiss(t, device) ==
    /\ platform = "ddwrt"
    /\ pc[t] = "idle"
    /\ Constructed
    /\ NameLockFree
    /\ NeedsLeases(device)
    /\ lock' = t
    /\ pc' = [pc EXCEPT ![t] = "name_fetch"]
    /\ frame' = [frame EXCEPT ![t] = [NoFrame EXCEPT !.device = device]]
    /\ prev_name' = NoName
    /\ UNCHANGED <<fnVars, platform, scanner, success_init, last_results, mac2name,
                   throttle_lock, elapsed, pre_results, prev_scan,
                   nmapVars>>

\* variant: line 118 left out, the rebuild adds to the index it finds
KeptIndex == mac2name

\* line 118: the index the rebuild starts from
ClearedIndex == EmptyDict

\* lines 115-116: the fields of dhcp_leases
LeaseElements(dhcp_leases) ==
    Split(Strip(Strip(dhcp_leases, Whitespace), {"\""}), <<"\"", ",", "\"">>)

\* variant: the lock is taken and released by hand, and the early returns
\* forget to release it
NameReturnsKeepsLock(t, name) ==
    /\ lock' = IF name = None THEN lock ELSE "free"
    /\ pc' = [pc EXCEPT ![t] = "idle"]
    /\ frame' = [frame EXCEPT ![t] = NoFrame]
    /\ prev_name' = IF name = None THEN NoName
                    ELSE [device |-> frame[t].device, name |-> name,
                          fetched |-> TRUE]

\* get_device_name returns `name` and lets go of the lock
NameReturns(t, name) ==
    /\ lock' = "free"
    /\ pc' = [pc EXCEPT ![t] = "idle"]
    /\ frame' = [frame EXCEPT ![t] = NoFrame]
    /\ prev_name' = IF name = None THEN NoName
                    ELSE [device |-> frame[t].device, name |-> name,
                          fetched |-> TRUE]

\* lines 104-118: the page arrives; up to self.mac2name = {}
DdNameFetch(t, response) ==
    /\ platform = "ddwrt"
    /\ pc[t] = "name_fetch"
    /\ LET data == DdwrtData[response] IN
       IF data.raised
       THEN /\ lock' = "free"
            /\ pc' = [pc EXCEPT ![t] = "raised"]
            /\ frame' = [frame EXCEPT ![t] = NoFrame]
            /\ UNCHANGED <<mac2name, prev_name>>
       ELSE IF NotData(data) \/ Falsy(data.data, DHCP_LEASES)
       THEN /\ NameReturns(t, None)
            /\ UNCHANGED mac2name
       ELSE /\ mac2name' = ClearedIndex
            /\ pc' = [pc EXCEPT ![t] = "name_loop"]
            /\ frame' = [frame EXCEPT
                            ![t].elements = LeaseElements(data.data[DHCP_LEASES]),
                            ![t].idx = 0]
            /\ UNCHANGED <<lock, prev_name>>
    /\ UNCHANGED <<fnVars, platform, scanner, success_init, last_results,
                   throttle_lock, elapsed, pre_results, prev_scan,
                   nmapVars>>

\* variant: a cut-off last group is counted as a group
NumClientsRoundedUp(elements) == (Len(elements) + 4) \div 5

\* num_clients = int(len(elements)/5)
NumClients(elements) == Len(elements) \div 5

\* lines 119-128: one round of the loop, or the return after the last one
\* (a Python index i is position i + 1 of the sequence)
DdNameLoop(t) ==
    /\ platform = "ddwrt"
    /\ pc[t] = "name_loop"
    /\ LET f == frame[t]
           mac_index == (f.idx * 5) + 2
       IN
       IF f.idx < NumClients(f.elements)
       THEN /\ mac2name' =
                 IF mac_index < Len(f.elements)
                 THEN Put(mac2name, f.elements[mac_index + 1],
                          f.elements[(f.idx * 5) + 1])
                 ELSE mac2name
            /\ frame' = [frame EXCEPT ![t].idx = f.idx + 1]
            /\ UNCHANGED <<lock, pc, prev_name>>
       ELSE /\ NameReturns(t, NameOf(mac2name, f.device))
            /\ UNCHANGED mac2name
    /\ UNCHANGED <<fnVars, platform, scanner, success_init, last_results,
                   throttle_lock, elapsed, pre_results, prev_scan,
                   nmapVars>>

(***************************************************************************)
(* The router-poll scanner and its callers.                                *)
(***************************************************************************)
InitDdwrt ==
    /\ platform = "ddwrt"
    /\ scanner = "pending"
    /\ success_init = "unset"
    /\ lock = "free"
    /\ last_results = <<>>
    /\ mac2name = EmptyDict
    /\ throttle_lock = "free"
    /\ elapsed = -1
    /\ pc = [t \in Threads |-> "idle"]
    /\ frame = [t \in Threads |-> NoFrame]
    /\ pre_results = <<>>
    /\ prev_scan = "none"
    /\ prev_name = NoName
    /\ now = 0
    /\ home_interval = 0
    /\ arg = <<>>
    /\ out = Pending

NextDdwrt ==
    \/ Tick
    \/ \E ok \in BOOLEAN, r \in StatusResponses : DdGetScanner(ok, r)
    \/ \E t \in Threads : ThrottleEnter(t)
    \/ \E t \in Threads : ThrottleBusy(t)
    \/ \E t \in Threads : DdUpdateNotInit(t)
    \/ \E t \in Threads : DdUpdateLock(t)
    \/ \E t \in Threads, r \in StatusResponses : DdUpdateFetch(t, r)
    \/ \E t \in Threads : DdUpdateExtend(t)
    \/ \E t \in Threads : DdScanReturn(t)
    \/ \E t \in Threads, d \in Devices : DdNameHit(t, d)
    \/ \E t \in Threads, d \in Devices : DdNameMiss(t, d)
    \/ \E t \in Threads, r \in LeaseResponses : DdNameFetch(t, r)
    \/ \E t \in Threads : DdNameLoop(t)

Spec == InitDdwrt /\ [][NextDdwrt]_vars

(***************************************************************************)
(* nmap_tracker: what a sweep can report.                                  *)
(***************************************************************************)
Range(seq) == {seq[i] : i \in DOMAIN seq}

IPs == {"ip1", "ip2"}

NoMac == "none"

\* mac.upper()
Upper(mac) == IF mac = "a" THEN "A" ELSE mac

\* one entry of result['scan']: info['status']['state'], info['hostnames'],
\* info['addresses'].get('mac'), and what `arp -n` would say of the address
HostReports(ip) ==
    {[ip |-> ip, state |-> "down", hostnames |-> <<>>, mac |-> "a",
      arp |-> NoMac],
     [ip |-> ip, state |-> "up", hostnames |-> <<"h">>, mac |-> "a",
      arp |-> NoMac],
     [ip |-> ip, state |-> "up", hostnames |-> <<>>, mac |-> NoMac,
      arp |-> "B"],
     [ip |-> ip, state |-> "up", hostnames |-> <<>>, mac |-> NoMac,
      arp |-> NoMac]}

\* result['scan'].items(): at most one entry per address, in any order, and
\* none for an address nmap was told to leave out
ScanResults(excluded) ==
    LET ips == IPs \ excluded IN
    {<<>>}
    \cup UNION {{<<r>> : r \in HostReports(i)} : i \in ips}
    \cup UNION {{<<r1, r2>> : r1 \in HostReports(i), r2 \in HostReports(j)} :
                <<i, j>> \in {p \in ips \X ips : p[1] # p[2]}}

\* the same, worked out once for each set of addresses left out
ScanResultsOf == [excluded \in SUBSET IPs |-> ScanResults(excluded)]

\* scanner.scan raised PortScannerError instead of answering
PortScannerError == [raised |-> TRUE, scan |-> <<>>]

\* the moments at which the clock is read
Instants == {0, MIN_TIME_BETWEEN_SCANS, 60, 60 + MIN_TIME_BETWEEN_SCANS}

\* CONF_HOME_INTERVAL, in minutes; 0 when it is not configured
MaxHomeMinutes == 1

\* timedelta(minutes=minutes), in seconds
HomeInterval(minutes) == minutes * 60

\* _arp(ip_address)
arp(report) == report.arp

\* variant: line 144 with the operands swapped, _arp is asked first
RECURSIVE AppendDevicesArpFirst(_, _, _)
AppendDevicesArpFirst(results, reports, time) ==
    IF reports = <<>> THEN results
    ELSE LET info == Head(reports)
             name == IF info.hostnames # <<>> THEN info.hostnames[1]
                     ELSE info.ip
             mac == IF arp(info) # NoMac THEN arp(info) ELSE info.mac
         IN  IF info.state # "up" \/ mac = NoMac
             THEN AppendDevicesArpFirst(results, Tail(reports), time)
             ELSE AppendDevicesArpFirst(
                      Append(results, [mac |-> Upper(mac), name |-> name,
                                       ip |-> info.ip, last_update |-> time]),
                      Tail(reports), time)

\* lines 139-147: the records of the hosts that are up and have an address
RECURSIVE AppendDevices(_, _, _)
AppendDevices(results, reports, time) ==
    IF reports = <<>> THEN results
    ELSE LET info == Head(reports)
             name == IF info.hostnames # <<>> THEN info.hostnames[1]
                     ELSE info.ip
             mac == IF info.mac # NoMac THEN info.mac ELSE arp(info)
         IN  IF info.state # "up" \/ mac = NoMac
             THEN AppendDevices(results, Tail(reports), time)
             ELSE AppendDevices(
                      Append(results, [mac |-> Upper(mac), name |-> name,
                                       ip |-> info.ip, last_update |-> time]),
                      Tail(reports), time)

\* variant: lines 123-124 without the condition, every record is kept
HomeKeptAll(results, boundary) == results

\* variant: lines 123-124 with >= for >
HomeKeptInclusive(results, boundary) ==
    SelectSeq(results, LAMBDA device : device.last_update >= boundary)

\* lines 123-124: the records seen after the boundary
HomeKept(results, boundary) ==
    SelectSeq(results, LAMBDA device : device.last_update > boundary)

\* line 128: the addresses given to --exclude
ExcludedIps(kept) == [i \in DOMAIN kept |-> kept[i].ip]

(***************************************************************************)
(* nmap_tracker.get_scanner, NmapDeviceScanner.__init__ and its methods.   *)
(***************************************************************************)
NmTick(n) ==
    /\ platform = "nmap"
    /\ n > now
    /\ now' = n
    /\ elapsed' = IF elapsed = -1 THEN -1
                  ELSE Min(elapsed + (n - now), MIN_TIME_BETWEEN_SCANS)
    /\ UNCHANGED <<fnVars, platform, scanner, success_init, last_results,
                   throttle_lock, pc, frame, home_interval, ddwrtVars>>

\* lines 50-58, 78-85: up to the call of self._update_info() in __init__
NmGetScanner(t, config_ok, minutes) ==
    /\ platform = "nmap"
    /\ scanner = "pending"
    /\ pc[t] = "idle"
    /\ IF ~config_ok
       THEN /\ scanner' = "None"
            /\ UNCHANGED <<home_interval, throttle_lock, elapsed, pc, frame>>
       ELSE /\ scanner' = "init"
            /\ home_interval' = HomeInterval(minutes)
            /\ GuardFree /\ Stale
            /\ throttle_lock' = t
            /\ elapsed' = 0
            /\ pc' = [pc EXCEPT ![t] = "update_info"]
            /\ frame' = [frame EXCEPT ![t] =
                            [NoFrame EXCEPT !.constructing = TRUE]]
    /\ UNCHANGED <<fnVars, platform, success_init, last_results, now, ddwrtVars>>

\* lines 119-131: the records kept and the addresses left out
NmUpdateBegin(t) ==
    /\ platform = "nmap"
    /\ pc[t] = "update_info"
    /\ LET boundary == now - home_interval
           kept == IF home_interval # 0
                   THEN HomeKept(last_results, boundary)
                   ELSE <<>>
       IN  frame' = [frame EXCEPT ![t].elements = kept,
                                  ![t].boundary = boundary,
                                  ![t].exclude = ExcludedIps(kept)]
    /\ pc' = [pc EXCEPT ![t] = "scan"]
    /\ UNCHANGED <<fnVars, platform, scanner, success_init, last_results,
                   throttle_lock, elapsed, nmapVars, ddwrtVars>>

\* _update_info returns `result` to __init__ (line 85) or to scan_devices
NmUpdateReturns(t, result) ==
    /\ throttle_lock' = "free"
    /\ frame' = [frame EXCEPT ![t] = [NoFrame EXCEPT !.result = result]]
    /\ IF frame[t].constructing
       THEN /\ success_init' = result
            /\ scanner' = IF result = "True" THEN "object" ELSE "None"
            /\ pc' = [pc EXCEPT ![t] = "idle"]
       ELSE /\ pc' = [pc EXCEPT ![t] = "scan_return"]
            /\ UNCHANGED <<scanner, success_init>>

\* variant: the kept records are stored before the sweep is run
OnPortScannerErrorFiltered(t) ==
    /\ NmUpdateReturns(t, "False")
    /\ last_results' = frame[t].elements

\* lines 135-136: the sweep failed
OnPortScannerError(t) ==
    /\ NmUpdateReturns(t, "False")
    /\ UNCHANGED last_results

\* lines 138-152: the sweep answered
OnScanResult(t, reports) ==
    /\ last_results' = AppendDevices(frame[t].elements, reports, now)
    /\ NmUpdateReturns(t, "True")

\* what scanner.scan can do when it is told to leave `exclude` out
ScanOutcomes(exclude) ==
    {PortScannerError}
    \cup {[raised |-> FALSE, scan |-> r] : r \in ScanResultsOf[Range(exclude)]}

\* lines 133-152
NmUpdateScan(t) ==
    /\ platform = "nmap"
    /\ pc[t] = "scan"
    /\ \E outcome \in ScanOutcomes(frame[t].exclude) :
          IF outcome.raised
          THEN OnPortScannerError(t)
          ELSE OnScanResult(t, outcome.scan)
    /\ UNCHANGED <<fnVars, platform, elapsed, nmapVars, ddwrtVars>>

\* line 95: a new list of the macs of self.last_results
NmScanReturn(t) ==
    /\ platform = "nmap"
    /\ pc[t] = "scan_return"
    /\ pc' = [pc EXCEPT ![t] = "idle"]
    /\ frame' = [frame EXCEPT ![t] = NoFrame]
    /\ UNCHANGED <<fnVars, platform, scanner, success_init, last_results,
                   throttle_lock, elapsed, nmapVars, ddwrtVars>>

\* line 95: [device.mac for device in self.last_results]
ScanIds(results) == [i \in DOMAIN results |-> results[i].mac]

\* ids callers of the sweep ask a name for: two spellings of one address
NmapDevices == {"a", "A"}

\* variant: the records are picked by their address field
FilterNamedByIp(results, mac) ==
    LET hits == SelectSeq(results, LAMBDA device : device.ip = mac)
    IN  [i \in DOMAIN hits |-> hits[i].name]

\* lines 100-101: the names of the records whose mac is the one asked for
FilterNamed(results, mac) ==
    LET hits == SelectSeq(results, LAMBDA device : device.mac = mac)
    IN  [i \in DOMAIN hits |-> hits[i].name]

\* lines 103-106: the first of them, or None
FirstOrNone(filter_named) ==
    IF filter_named # <<>> THEN <<filter_named[1]>> ELSE None

\* NmapDeviceScanner.get_device_name(mac), on the records it finds
nmap_get_device_name(results, mac) == FirstOrNone(FilterNamed(results, mac))

\* lines 97-106: get_device_name reads self.last_results and nothing else
NmGetDeviceName(t, mac) ==
    /\ platform = "nmap"
    /\ pc[t] = "idle"
    /\ Constructed
    /\ prev_name' = [device |-> <<mac>>,
                     name |-> nmap_get_device_name(last_results, mac),
                     fetched |-> FALSE]
    /\ UNCHANGED <<fnVars, platform, scanner, success_init, lock, last_results,
                   mac2name, throttle_lock, elapsed, pc, frame, pre_results,
                   prev_scan, nmapVars>>

(***************************************************************************)
(* The sweep scanner and its callers.                                      *)
(***************************************************************************)
InitNmap ==
    /\ platform = "nmap"
    /\ scanner = "pending"
    /\ success_init = "unset"
    /\ lock = "free"
    /\ last_results = <<>>
    /\ mac2name = EmptyDict
    /\ throttle_lock = "free"
    /\ elapsed = -1
    /\ pc = [t \in Threads |-> "idle"]
    /\ frame = [t \in Threads |-> NoFrame]
    /\ pre_results = <<>>
    /\ prev_scan = "none"
    /\ prev_name = NoName
    /\ now = 0
    /\ home_interval = 0
    /\ arg = <<>>
    /\ out = Pending

NextNmap ==
    \/ \E n \in Instants : NmTick(n)
    \/ \E t \in Threads, ok \in BOOLEAN, m \in 0..MaxHomeMinutes :
          NmGetScanner(t, ok, m)
    \/ \E t \in Threads : ThrottleEnter(t)
    \/ \E t \in Threads : ThrottleBusy(t)
    \/ \E t \in Threads : NmUpdateBegin(t)
    \/ \E t \in Threads : NmUpdateScan(t)
    \/ \E t \in Threads : NmScanReturn(t)

\* the sweep with callers of both methods
NextNmapNames ==
    \/ NextNmap
    \/ \E t \in Threads, d \in NmapDevices : NmGetDeviceName(t, d)

SpecNmapNames == InitNmap /\ [][NextNmapNames]_vars

SpecNmap == InitNmap /\ [][NextNmap]_vars

(***************************************************************************)
(* _parse_ddwrt_response and the loop of lines 139-147, called on their    *)
(* own on every input up to the bounds.                                    *)
(***************************************************************************)
\* what pages are made of: the start of a token for two keys, a value
\* character, the characters of the pattern, and a whole token
Pieces ==
    {<<"{", "k", ":", ":">>, <<"{", "j", ":", ":">>, <<"v">>, <<",">>,
     <<"}">>, <<"{">>, <<":">>, <<"{", "k", ":", ":", "v", "}">>}

ParserInputs ==
    {[fn |-> "parse", text |-> Flatten(ps)] : ps \in SeqsUpTo(Pieces, MaxPieces)}

\* info of one address: every state, with and without a host name, an
\* address from the probe, an address from arp
ProbeReports(ip) ==
    {[ip |-> ip, state |-> st, hostnames |-> hn, mac |-> m, arp |-> a] :
        st \in {"up", "down"}, hn \in {<<>>, <<"h">>},
        m \in {NoMac, "a"}, a \in {NoMac, "B"}}

\* result['scan'].items(): at most one entry per address, in any order
ProbeScans ==
    {<<>>}
    \cup UNION {{<<r>> : r \in ProbeReports(i)} : i \in IPs}
    \cup UNION {{<<r1, r2>> : r1 \in ProbeReports(i), r2 \in ProbeReports(j)} :
                <<i, j>> \in {p \in IPs \X IPs : p[1] # p[2]}}

\* the local last_results before the loop: nothing, or a record kept
KeptLists ==
    {<<>>, <<[mac |-> "B", name |-> "ip1", ip |-> "ip1", last_update |-> 0]>>}

ProbeInputs ==
    {[fn |-> "append", kept |-> k, reports |-> r, time |-> n] :
        k \in KeptLists, r \in ProbeScans, n \in Instants}

\* _parse_ddwrt_response(data_str)
CallParse ==
    /\ platform = "none"
    /\ arg.fn = "parse"
    /\ ~out.done
    /\ out' = [done |-> TRUE, value |-> parse_ddwrt_response(arg.text)]
    /\ UNCHANGED <<platform, scanner, success_init, last_results,
                   throttle_lock, elapsed, pc, frame, arg, nmapVars, ddwrtVars>>

\* lines 138-147 on a local last_results
CallAppend ==
    /\ platform = "none"
    /\ arg.fn = "append"
    /\ ~out.done
    /\ out' = [done |-> TRUE,
               value |-> AppendDevices(arg.kept, arg.reports, arg.time)]
    /\ UNCHANGED <<platform, scanner, success_init, last_results,
                   throttle_lock, elapsed, pc, frame, arg, nmapVars, ddwrtVars>>

InitFunctions ==
    /\ platform = "none"
    /\ scanner = "pending"
    /\ success_init = "unset"
    /\ lock = "free"
    /\ last_results = <<>>
    /\ mac2name = EmptyDict
    /\ throttle_lock = "free"
    /\ elapsed = -1
    /\ pc = [t \in Threads |-> "idle"]
    /\ frame = [t \in Threads |-> NoFrame]
    /\ pre_results = <<>>
    /\ prev_scan = "none"
    /\ prev_name = NoName
    /\ now = 0
    /\ home_interval = 0
    /\ arg \in ParserInputs \cup ProbeInputs
    /\ out = Pending

NextFunctions == CallParse \/ CallAppend

SpecFunctions == InitFunctions /\ [][NextFunctions]_vars

(***************************************************************************)
(* Narrower uses of the same scanners.                                     *)
(***************************************************************************)
\* the router poller whose callers only poll scan_devices
NextDdwrtPoll ==
    \/ Tick
    \/ \E ok \in BOOLEAN, r \in StatusResponses : DdGetScanner(ok, r)
    \/ \E t \in Threads : ThrottleEnter(t)
    \/ \E t \in Threads : ThrottleBusy(t)
    \/ \E t \in Threads : DdUpdateNotInit(t)
    \/ \E t \in Threads : DdUpdateLock(t)
    \/ \E t \in Threads, r \in StatusResponses : DdUpdateFetch(t, r)
    \/ \E t \in Threads : DdUpdateExtend(t)
    \/ \E t \in Threads : DdScanReturn(t)

\* the polled router lists entries of every shape
NextDdwrtShapes ==
    \/ Tick
    \/ \E ok \in BOOLEAN, r \in ShapeResponses : DdGetScanner(ok, r)
    \/ \E t \in Threads : ThrottleEnter(t)
    \/ \E t \in Threads : ThrottleBusy(t)
    \/ \E t \in Threads : DdUpdateNotInit(t)
    \/ \E t \in Threads : DdUpdateLock(t)
    \/ \E t \in Threads, r \in ShapeResponses : DdUpdateFetch(t, r)
    \/ \E t \in Threads : DdUpdateExtend(t)
    \/ \E t \in Threads : DdScanReturn(t)

SpecShapes == InitDdwrt /\ [][NextDdwrtShapes]_vars

\* either scanner, polled
InitEither == InitDdwrt \/ InitNmap

NextPoll == NextDdwrtPoll \/ NextNmap

SpecPoll == InitEither /\ [][NextPoll]_vars

\* the router poller within one throttle window: every call of both methods,
\* within MIN_TIME_BETWEEN_SCANS of the first refresh
NextDdwrtWindow ==
    \/ \E ok \in BOOLEAN, r \in StatusResponses : DdGetScanner(ok, r)
    \/ \E t \in Threads : ThrottleEnter(t)
    \/ \E t \in Threads : ThrottleBusy(t)
    \/ \E t \in Threads : DdUpdateNotInit(t)
    \/ \E t \in Threads : DdUpdateLock(t)
    \/ \E t \in Threads, r \in StatusResponses : DdUpdateFetch(t, r)
    \/ \E t \in Threads : DdUpdateExtend(t)
    \/ \E t \in Threads : DdScanReturn(t)
    \/ \E t \in Threads, d \in Devices : DdNameHit(t, d)
    \/ \E t \in Threads, d \in Devices : DdNameMiss(t, d)
    \/ \E t \in Threads, r \in LeaseResponses : DdNameFetch(t, r)
    \/ \E t \in Threads : DdNameLoop(t)

SpecWindow == InitDdwrt /\ [][NextDdwrtWindow]_vars

\* either scanner, every method, the router poller within one window
NextEither == NextDdwrtWindow \/ NextNmap

SpecEither == InitEither /\ [][NextEither]_vars

\* one answer of the router for each way _update_info can end
ExitStatusResponses ==
    {r \in StatusResponses :
        \/ r.status_code # 200
        \/ r.text \in {<<" ">>,
                       Field(<<"lan_mac">>, <<"A">>),
                       Field(ACTIVE_WIRELESS, Quoted(<< <<"A">>, <<"B">> >>, "'"))}}

\* one answer of the router for each way get_device_name can end
ExitLeaseResponses ==
    {r \in LeaseResponses :
        \/ r.status_code # 200
        \/ r.text \in {Field(<<"lan_mac">>, <<"A">>),
                       Field(DHCP_LEASES, Quoted(LeaseGroup("n1", "A"), "\""))}}

\* the router poller within one throttle window, one answer per exit path
NextDdwrtExits ==
    \/ \E ok \in BOOLEAN, r \in ExitStatusResponses : DdGetScanner(ok, r)
    \/ \E t \in Threads : ThrottleEnter(t)
    \/ \E t \in Threads : ThrottleBusy(t)
    \/ \E t \in Threads : DdUpdateNotInit(t)
    \/ \E t \in Threads : DdUpdateLock(t)
    \/ \E t \in Threads, r \in ExitStatusResponses : DdUpdateFetch(t, r)
    \/ \E t \in Threads : DdUpdateExtend(t)
    \/ \E t \in Threads : DdScanReturn(t)
    \/ \E t \in Threads, d \in Devices : DdNameHit(t, d)
    \/ \E t \in Threads, d \in Devices : DdNameMiss(t, d)
    \/ \E t \in Threads, r \in ExitLeaseResponses : DdNameFetch(t, r)
    \/ \E t \in Threads : DdNameLoop(t)

\* a step a thread inside a call takes without waiting for another thread
RunsOn(t) ==
    \/ DdUpdateNotInit(t)
    \/ \E r \in ExitStatusResponses : DdUpdateFetch(t, r)
    \/ DdUpdateExtend(t)
    \/ DdScanReturn(t)
    \/ \E r \in ExitLeaseResponses : DdNameFetch(t, r)
    \/ DdNameLoop(t)

\* every fetch returns, every thread inside a call is scheduled, and a
\* thread that waits for the lock gets it if it is free again and again
FairDdwrt ==
    \A t \in Threads : WF_vars(RunsOn(t)) /\ SF_vars(DdUpdateLock(t))

SpecExitsFair == InitDdwrt /\ [][NextDdwrtExits]_vars /\ FairDdwrt

\* either scanner, every method, the router poller within one window
NextEitherNames == NextDdwrtWindow \/ NextNmapNames

SpecEitherNames == InitEither /\ [][NextEitherNames]_vars

(***************************************************************************)
(* Properties.                                                             *)
(***************************************************************************)
\* a thread is in the body of _update_info
BodyPcs == {"update_info", "update_fetch", "update_extend", "scan"}

\* a thread is inside `with self.lock:`
LockedPcs == {"update_fetch", "update_extend", "name_fetch", "name_loop"}

\* thread t's call of scan_devices is answered without a refresh
ThrottledCall(t) == pc[t] = "scan_return" /\ frame[t].throttled

C2_FailedRefreshKeepsResults ==
    [][\A t \in Threads :
          (platform = "ddwrt" /\ pc[t] \in {"update_info", "update_fetch"}
              /\ pc'[t] = "scan_return" /\ frame'[t].result = "False")
          => last_results' = last_results]_vars

\* C3: whatever the HTTP fetch does, scan_devices() and get_device_name()
\* return and never raise.
C3_NeverRaises == \A t \in Threads : pc[t] # "raised"

\* the list a refresh in the loop of lines 163-164 will have built at its end
PostResults(t) ==
    last_results \o
        SelectSeq(SubSeq(frame[t].elements, frame[t].idx, Len(frame[t].elements)),
                  MacMatch)

\* C4: the list scan_devices() handed out, while a refresh runs, is the
\* complete list from before that refresh or the complete list from after it.
C4_NoTornRead ==
    \A t \in Threads :
        (pc[t] = "update_extend" /\ prev_scan = "live")
        => last_results \in {pre_results, PostResults(t)}

\* C5: at most one thread is between the staleness check and the assignment
\* of the cached state, and it holds the guard; a thread inside `with
\* self.lock:` holds the lock, so the status fetch with its writes to
\* last_results and the lease fetch with its writes to mac2name never overlap.
C5_SerializedRefresh ==
    /\ \A t, u \in Threads :
          (pc[t] \in BodyPcs /\ pc[u] \in BodyPcs) => t = u
    /\ \A t \in Threads : pc[t] \in BodyPcs => throttle_lock = t
    /\ \A t \in Threads : pc[t] \in LockedPcs => lock = t
    /\ \A t, u \in Threads :
          (pc[t] \in LockedPcs /\ pc[u] \in LockedPcs) => t = u

\* a refresh that passed the staleness check waits for the lock while another
\* thread fetches or reads the lease table
C5_Witness ==
    \E t, u \in Threads :
        /\ pc[t] \in {"name_fetch", "name_loop"}
        /\ pc[u] = "update_info"
        /\ throttle_lock = u
        /\ lock = t

\* the moment the refresh thread t is in began
StartOf(t) == frame[t].boundary + home_interval

\* the record was last seen within home_interval of the start of t's refresh
WithinHome(device, t) == StartOf(t) - device.last_update < home_interval

\* C6: with home_interval > 0, the address of every record of last_results
\* seen within home_interval of the start of a refresh is in the exclusion
\* list of the sweep; when the sweep succeeds those records are in the new
\* last_results unchanged, no older record is, and every other record of the
\* new last_results is one the sweep just made, for an address not excluded.
C6_HomeInterval ==
    /\ [](\A t \in Threads :
            (pc[t] = "scan" /\ home_interval > 0)
            => \A i \in DOMAIN last_results :
                  WithinHome(last_results[i], t)
                  => last_results[i].ip \in Range(frame[t].exclude))
    /\ [][\A t \in Threads :
            (pc[t] = "scan" /\ pc'[t] # "scan" /\ home_interval > 0
                /\ frame'[t].result = "True")
            => /\ \A i \in DOMAIN last_results :
                     WithinHome(last_results[i], t)
                     <=> last_results[i] \in Range(last_results')
               /\ \A j \in DOMAIN last_results' :
                     \/ last_results'[j] \in Range(last_results)
                     \/ /\ last_results'[j].last_update = now
                        /\ last_results'[j].ip \notin Range(frame[t].exclude)]_vars

\* a sweep is running that leaves out one record's address and has dropped
\* another record for its age
C6_Witness ==
    \E t \in Threads :
        /\ pc[t] = "scan"
        /\ home_interval > 0
        /\ frame[t].exclude # <<>>
        /\ Len(frame[t].elements) < Len(last_results)

\* C7: when the sweep raises PortScannerError, _update_info returns False
\* and last_results is what it was before the call, with or without a
\* home_interval.
C7_FailedSweepKeepsResults ==
    [][\A t \in Threads :
          /\ (platform = "nmap" /\ pc[t] = "update_info" /\ pc'[t] # pc[t])
                => last_results' = last_results
          /\ (pc[t] = "scan" /\ pc'[t] # "scan" /\ frame'[t].result = "False")
                => last_results' = last_results]_vars

\* scan_devices is about to return after a failed sweep, with a record that
\* had aged out of the home interval still in last_results
C7_Witness ==
    \E t \in Threads :
        /\ pc[t] = "scan_return"
        /\ frame[t].result = "False"
        /\ home_interval > 0
        /\ \E i \in DOMAIN last_results :
              now - last_results[i].last_update >= home_interval

\* C8: get_device_name(id) fetches the lease table exactly when id is not a
\* key of mac2name as the call takes the lock; a call for the id the latest
\* call was answered for, with a name, returns that name and fetches nothing.
C8_LazyIdempotent ==
    [][/\ \A t \in Threads :
            (pc[t] = "idle" /\ pc'[t] = "name_fetch")
            => /\ frame'[t].device \notin DOMAIN mac2name
               /\ frame'[t].device # prev_name.device
       /\ (pc' = pc /\ prev_name' # prev_name)
            => /\ prev_name'.device \in DOMAIN mac2name
               /\ prev_name'.name = mac2name[prev_name'.device]
               /\ ~prev_name'.fetched
       /\ (prev_name.name # None /\ prev_name'.device = prev_name.device)
            => prev_name'.name = prev_name.name]_vars

\* a name was given from the index, without a fetch, after the list of
\* devices was handed out
C8_Witness ==
    /\ prev_name.name # None
    /\ ~prev_name.fetched
    /\ prev_scan # "none"
    /\ last_results # <<>>

\* the mapping lines 119-126 build from the fields of a lease table alone
LeaseIndex(elements) ==
    LET groups == 0..(NumClients(elements) - 1)
        macs == {elements[(5 * i) + 3] : i \in groups}
        last(m) == CHOOSE i \in groups :
                      /\ elements[(5 * i) + 3] = m
                      /\ \A j \in groups : elements[(5 * j) + 3] = m => j <= i
    IN  [m \in macs |-> elements[(5 * last(m)) + 1]]

\* C9: a get_device_name() call leaves mac2name as it was, or ends with
\* mac2name equal to the mapping built from the lease table it fetched; while
\* a call rebuilds the index no other call of get_device_name() reads it.
C9_IndexReplacedWholesale ==
    [][/\ (\A t \in Threads : pc[t] # "name_loop" /\ pc'[t] # "name_loop")
            => mac2name' = mac2name
       /\ \A t \in Threads :
            (pc[t] = "name_loop" /\ pc'[t] # "name_loop")
            => /\ mac2name' = mac2name
               /\ mac2name = LeaseIndex(frame[t].elements)
       /\ (\E t \in Threads : pc[t] = "name_loop")
            => /\ \A u \in Threads : pc'[u] = "name_fetch" => pc[u] = "name_fetch"
               /\ (prev_name' # prev_name
                     => \E t \in Threads : pc[t] = "name_loop" /\ pc'[t] = "idle")
      ]_vars

\* a rebuild is at its end: the index holds the entries of the fetched
\* table and none for the device that was asked for
C9_Witness ==
    \E t \in Threads :
        /\ pc[t] = "name_loop"
        /\ frame[t].idx = NumClients(frame[t].elements)
        /\ frame[t].idx > 0
        /\ DOMAIN mac2name # {}
        /\ frame[t].device \notin DOMAIN mac2name

\* C10: success_init is set once and never changed; get_scanner gives the
\* scanner object when success_init is true and None when it is false; a
\* DdWrtDeviceScanner whose success_init is false never asks for the status
\* page and keeps last_results empty.
C10_InitFlag ==
    /\ [](/\ scanner = "object" <=> success_init = "True"
          /\ success_init = "False" => scanner = "None"
          /\ (platform = "ddwrt" /\ success_init = "False")
                => /\ last_results = <<>>
                   /\ \A t \in Threads :
                         pc[t] \notin {"update_fetch", "update_extend"})
    /\ [][success_init # "unset" => success_init' = success_init]_vars

\* scan_devices was called on a DdWrtDeviceScanner whose first probe failed
C10_Witness ==
    /\ platform = "ddwrt"
    /\ success_init = "False"
    /\ scanner = "None"
    /\ \E t \in Threads : pc[t] = "scan_return" /\ frame[t].result = "False"

\* C12: in the sweep variant get_device_name(id) changes nothing and probes
\* nothing; for an id in the list scan_devices() returns on the same records
\* it gives the name of a record whose mac is id, for any other id None.
C12_PresenceIdentityAgree ==
    [][(platform = "nmap" /\ prev_name' # prev_name)
        => LET id == prev_name'.device[1]
               name == prev_name'.name
           IN  /\ UNCHANGED <<scanner, success_init, last_results,
                              throttle_lock, elapsed, pc, frame, now,
                              home_interval>>
               /\ IF id \in Range(ScanIds(last_results))
                  THEN \E i \in DOMAIN last_results :
                          /\ last_results[i].mac = id
                          /\ name = <<last_results[i].name>>
                  ELSE name = None]_vars

\* a name was given for an id that two records of the result carry
C12_Witness ==
    /\ platform = "nmap"
    /\ prev_name.name # None
    /\ Len(last_results) = 2
    /\ last_results[1].mac = last_results[2].mac
    /\ prev_name.device = <<last_results[2].mac>>

\* C14: for two spellings of one address that differ only in letter case,
\* get_device_name() gives the same answer in the same scanner state.
C14_CaseInsensitiveName ==
    platform = "nmap"
    => nmap_get_device_name(last_results, "a")
          = nmap_get_device_name(last_results, "A")

\* a thread is inside get_device_name of the router poller
NamePcs == {"name_fetch", "name_loop"}

\* a thread is inside scan_devices
ScanPcs == BodyPcs \cup {"scan_return"}

\* the step is one of thread t
StepOf(t) == pc'[t] # pc[t] \/ frame'[t] # frame[t]

\* C17: no step of get_device_name() changes last_results, in either
\* variant, and no step of scan_devices()/_update_info of the router poller
\* changes mac2name.
C17_PresenceIdentityIndependent ==
    [][/\ \A t \in Threads :
            (StepOf(t) /\ (pc[t] \in NamePcs \/ pc'[t] \in NamePcs))
            => last_results' = last_results
       /\ prev_name' # prev_name => last_results' = last_results
       /\ \A t \in Threads :
            (StepOf(t) /\ (pc[t] \in ScanPcs \/ pc'[t] \in ScanPcs))
            => mac2name' = mac2name]_vars

\* a refresh of the router poller fills last_results while the index holds
\* names
C17_Witness ==
    /\ platform = "ddwrt"
    /\ DOMAIN mac2name # {}
    /\ \E t \in Threads : pc[t] = "update_extend" /\ last_results # <<>>

\* C18: with home_interval > 0, right after a successful refresh that began
\* at time t every record of last_results has last_update later than
\* t - home_interval: a record not seen again ages out.
C18_RecordsAgeOut ==
    [][\A t \in Threads :
          (pc[t] = "scan" /\ pc'[t] # "scan" /\ frame'[t].result = "True"
              /\ home_interval > 0)
          => \A j \in DOMAIN last_results' :
                last_results'[j].last_update > StartOf(t) - home_interval]_vars

\* a sweep runs that began home_interval or more after a record was made
C18_Witness ==
    \E t \in Threads :
        /\ pc[t] = "scan"
        /\ home_interval > 0
        /\ \E i \in DOMAIN last_results :
              StartOf(t) - last_results[i].last_update >= home_interval

\* C20: last_results of the sweep holds at most one record per hardware
\* address.
C20_OneRecordPerMac ==
    platform = "nmap"
    => \A i, j \in DOMAIN last_results :
          last_results[i].mac = last_results[j].mac => i = j

\* C15: while get_device_name rebuilds the index from n elements, after k
\* rounds mac2name maps element 5i+2 to element 5i for the groups i < k, the
\* later group winning for a repeated address, and holds nothing else; k
\* never exceeds floor(n/5), so a cut-off last group adds nothing.
C15_LeaseGrouping ==
    \A t \in Threads :
        pc[t] = "name_loop"
        => LET e == frame[t].elements
               k == frame[t].idx
               macOf(i) == e[(5 * i) + 3]
               nameOf(i) == e[(5 * i) + 1]
           IN  /\ k <= Len(e) \div 5
               /\ DOMAIN mac2name = {macOf(i) : i \in 0..(k - 1)}
               /\ \A i \in 0..(k - 1) :
                     (\A j \in (i + 1)..(k - 1) : macOf(j) # macOf(i))
                     => mac2name[macOf(i)] = nameOf(i)

\* a table of ten elements has given two entries
C15_Witness ==
    \E t \in Threads :
        /\ pc[t] = "name_loop"
        /\ Len(frame[t].elements) = 10
        /\ frame[t].idx = 2
        /\ Cardinality(DOMAIN mac2name) = 2

\* a thread is inside a call of scan_devices or get_device_name
InCallPcs == ScanPcs \cup NamePcs

IsMac(item) == Len(item) = 1 /\ item[1] \in MacChars

\* C13, as stated: a successful refresh leaves in last_results exactly the
\* entries of the active_wireless list that are a hardware address and
\* nothing else, in list order, each in uppercase.
C13_ActiveClientExtraction ==
    [][\A t \in Threads :
          (pc[t] = "update_extend" /\ pc'[t] # "update_extend")
          => LET macs == SelectSeq(frame[t].elements, IsMac)
             IN  last_results' = [i \in DOMAIN macs |-> <<Upper(macs[i][1])>>]]_vars

\* the address the claim gives a host: the probe's, else what _arp found
AddressOf(info) == IF info.mac # NoMac THEN info.mac ELSE info.arp

\* C11: the loop adds to the kept records, in the order of the probe's
\* answer, exactly one record per host that is up and has an address, the
\* probe's if there is one and otherwise the one _arp found (in uppercase);
\* its name is the host name the probe gave or else the IP, its last_update
\* the time read for this refresh; no record has a null mac.
C11_SweepRecords ==
    (arg.fn = "append" /\ out.done)
    => LET hosts == SelectSeq(arg.reports,
                        LAMBDA info : info.state = "up" /\ AddressOf(info) # NoMac)
           fresh == [i \in DOMAIN hosts |->
                        [mac |-> Upper(AddressOf(hosts[i])),
                         name |-> IF hosts[i].hostnames = <<>>
                                  THEN hosts[i].ip
                                  ELSE hosts[i].hostnames[1],
                         ip |-> hosts[i].ip,
                         last_update |-> arg.time]]
       IN  /\ out.value = arg.kept \o fresh
           /\ \A i \in DOMAIN out.value : out.value[i].mac # NoMac

C11_Witness ==
    /\ arg.fn = "append"
    /\ out.done
    /\ Len(arg.reports) = 2
    /\ arg.reports[1].state = "up"
    /\ arg.reports[1].mac # NoMac
    /\ arg.reports[1].arp # NoMac
    /\ arg.reports[2].state = "up"
    /\ AddressOf(arg.reports[2]) = NoMac
    /\ Len(out.value) = Len(arg.kept) + 1
    /\ arg.kept # <<>>

\* a match of _DDWRT_DATA_REGEX starts at i, its key is k long and its
\* close-brace is at j
MatchAt(s, i, k, j) ==
    /\ s[i] = "{"
    /\ k >= 1
    /\ i + k + 2 < j
    /\ \A x \in (i + 1)..(i + k) : IsWord(s[x])
    /\ s[i + k + 1] = ":" /\ s[i + k + 2] = ":"
    /\ s[j] = "}"
    /\ \A x \in (i + k + 3)..(j - 1) : s[x] # "}"

\* the matches of s as <<start, key length, close-brace>>, overlapping or not
Matches(s) ==
    LET opens == {i \in DOMAIN s : s[i] = "{"}
        closes == {j \in DOMAIN s : s[j] = "}"}
    IN  {m \in opens \X (DOMAIN s) \X closes : MatchAt(s, m[1], m[2], m[3])}

\* the matches no match that starts earlier overlaps
NonOverlapping(s) ==
    LET all == Matches(s)
    IN  {m \in all : \A n \in all : n[1] < m[1] => n[3] < m[1]}

\* the two pages the specification parses by hand
ParserExamples ==
    /\ parse_ddwrt_response(<<"{", "foo", ":", ":", "bar", "}",
                              "{", "baz", ":", ":", "1", ",", "2", ",", "3", "}">>)
         = (<<"foo">> :> <<"bar">>) @@ (<<"baz">> :> <<"1", ",", "2", ",", "3">>)
    /\ parse_ddwrt_response(<<"{", "foo", ":", ":", "bar">>) = EmptyDict

KeyOf(s, m) == SubSeq(s, m[1] + 1, m[1] + m[2])
ValueOf(s, m) == SubSeq(s, m[1] + m[2] + 3, m[3] - 1)

\* C16: for every input the parser returns a mapping with exactly one entry
\* per identifier of a non-overlapping {identifier::value} match, mapped to
\* the value of the last match of that identifier; other text and an
\* unterminated token contribute nothing.
C16_BraceParser ==
    /\ ParserExamples
    /\ (arg.fn = "parse" /\ out.done)
       => LET s == arg.text
              ms == NonOverlapping(s)
          IN  /\ DOMAIN out.value = {KeyOf(s, m) : m \in ms}
              /\ \A m \in ms :
                    (\A n \in ms : KeyOf(s, n) = KeyOf(s, m) => n[1] <= m[1])
                    => out.value[KeyOf(s, m)] = ValueOf(s, m)

C16_Witness ==
    /\ arg.fn = "parse"
    /\ out.done
    /\ arg.text = <<"{", "k", ":", ":", "}", "{", "k", ":", ":", "v", "}", "{">>
    /\ out.value = (<<"k">> :> <<"v">>)

====
